---- MODULE Spec2Model ----
(***************************************************************************)
(* The riven-tui application loop (App.Update) and its screen models as a  *)
(* state machine.  One step of the loop handles one message: a key press   *)
(* from the terminal, or the message produced by one outstanding command   *)
(* (fetch, timer, navigation request).  Commands returned by Update are    *)
(* kept in the bag `pending` until the runtime delivers their message.     *)
(***************************************************************************)
EXTENDS Integers, Sequences, FiniteSets, Bags, TLC

VARIABLES
    a,          \* the App struct: currentScreen and the screen models
    pending,    \* bag of commands returned by Update whose message is not yet handled
    quitted,    \* TRUE once the runtime has processed tea.Quit
    last,       \* history: the last step of the loop (message, its origin, commands returned)
    lastOK,     \* history: per payload, the value of the last successful result applied
    used,       \* history: key presses, screen-switch keys and timer ticks handled so far
    overlap,    \* history: progress of two overlapping item-listing fetches (0, 1, 2)
    issued,     \* history: bag of the parameters the item list had when each
                \* listing fetch whose closure has not yet run was returned
    sse,        \* one call of Client.StreamEventsSSE: the reader, its channel, its context
    ev,         \* the EventsModel with its commands, reader goroutines and channel
    cfg         \* one call of validateConfig: the configuration, the error returned

vars == <<a, pending, quitted, last, lastOK, used, overlap, issued, sse, ev, cfg>>

----------------------------------------------------------------------------
(* Bounds of the model *)

\* largest number of commands outstanding after a step of the loop
MaxPending == 5
\* number of key presses explored in one run
MaxKeys == 4
\* number of screen-switch key presses (d, m, s, l, ?) among them
MaxNav == 2
\* number of timer ticks explored in one run
MaxTicks == 1
\* the search input's CharLimit (100 in NewItemsModel), scaled down
MaxSearchLen == 2
\* largest total_pages the service answers with
MaxPages == 2
\* key presses of a run of SpecFetch
MaxFetchKeys == 3

----------------------------------------------------------------------------
(* Screens *)

ScreenDashboard == "Dashboard"
ScreenItems == "Items"
ScreenItemDetail == "ItemDetail"
ScreenSettings == "Settings"
ScreenLogs == "Logs"
ScreenHelp == "Help"

Screen ==
    {ScreenDashboard, ScreenItems, ScreenItemDetail, ScreenSettings, ScreenLogs, ScreenHelp}

(* models.SortOrder *)
SortDateDesc == "date_desc"
SortDateAsc == "date_asc"
SortTitleAsc == "title_asc"
SortTitleDesc == "title_desc"

----------------------------------------------------------------------------
(* Key presses, by tea.KeyMsg.String() *)

\* keys that insert a character into a focused text input
Runes ==
    {"q", "d", "m", "s", "l", "?", "r", "n", "p", "1", "2", "3", "a", "f", "c", "/",
     "j", "k", "x"}

KeyMsg(k) == [type |-> "KeyMsg", key |-> k]

\* strconv.Atoi on the digit keys of the page-jump case
Atoi(k) == CASE k = "1" -> 1 [] k = "2" -> 2 [] k = "3" -> 3

----------------------------------------------------------------------------
(* Commands (tea.Cmd).  `owner` is the screen model whose method built the *)
(* command; `id` is the item id a closure captured; `params` are the       *)
(* request parameters of an item-listing fetch once its closure has run.   *)

NoParams == [read |-> FALSE, page |-> 0, search |-> <<>>, filter |-> "", sort |-> ""]

Cmd(kind, owner, id) == [kind |-> kind, owner |-> owner, id |-> id, params |-> NoParams]

Batch(S) == SetToBag(S)

NoCmd == EmptyBag

----------------------------------------------------------------------------
(* Results of the remote service *)

\* the error of a failed call; "" stands for a nil error
Errs == {"timeout"}

\* opaque payloads of the service (stats, services, settings, logs, ...); "nil" is a nil pointer
Payloads == {"v1", "v2"}
Nil == "nil"

\* fmt.Sprintf("<prefix>: %v", err); the empty tuple is the empty string
Sprintf(prefix, err) == <<prefix, err>>
NoError == <<>>

\* time.Time: the zero value, or a reading of time.Now()
ZeroTime == "zero"
Now == "now"

Result(m, cmd) == [m |-> m, cmd |-> cmd]

----------------------------------------------------------------------------
(* DashboardModel *)

NewDashboardModel ==
    [loading |-> TRUE, error |-> NoError, stats |-> Nil, services |-> Nil, rdUser |-> Nil,
     lastUpdate |-> ZeroTime, width |-> 0, height |-> 0]

\* SetSize of every screen model: the height leaves three lines to the navigation bar
DashboardSetSize(m, width, height) == [m EXCEPT !.width = width, !.height = height - 3]

fetchStats == Cmd("fetchStats", ScreenDashboard, "")
fetchServices == Cmd("fetchServices", ScreenDashboard, "")
fetchRDUser == Cmd("fetchRDUser", ScreenDashboard, "")
DashboardAutoRefresh == Cmd("autoRefresh", ScreenDashboard, "")

DashboardInit == Batch({fetchStats, fetchServices, fetchRDUser, DashboardAutoRefresh})

\* variant: a failed stats fetch also drops the stats held
DashboardUpdate_statsMsg_DropOnError(m, msg) ==
    IF msg.err # ""
    THEN Result([m EXCEPT !.loading = FALSE, !.stats = Nil,
                          !.error = Sprintf("Failed to fetch stats", msg.err)], NoCmd)
    ELSE Result([m EXCEPT !.loading = FALSE, !.stats = msg.val, !.error = NoError], NoCmd)

DashboardUpdate_statsMsg(m, msg) ==
    IF msg.err # ""
    THEN Result([m EXCEPT !.loading = FALSE,
                          !.error = Sprintf("Failed to fetch stats", msg.err)], NoCmd)
    ELSE Result([m EXCEPT !.loading = FALSE, !.stats = msg.val, !.error = NoError], NoCmd)

DashboardUpdate_servicesMsg(m, msg) ==
    IF msg.err # ""
    THEN Result([m EXCEPT !.error = Sprintf("Failed to fetch services", msg.err)], NoCmd)
    ELSE Result([m EXCEPT !.services = msg.val], NoCmd)

DashboardUpdate_rdUserMsg(m, msg) ==
    IF msg.err # ""
    THEN Result(m, NoCmd)
    ELSE Result([m EXCEPT !.rdUser = msg.val], NoCmd)

\* variant: the tick is handled without arming the next timer
DashboardUpdate_refreshMsg_NoTimer(m) ==
    Result([m EXCEPT !.lastUpdate = Now], Batch({fetchStats, fetchServices, fetchRDUser}))

DashboardUpdate_refreshMsg(m) ==
    Result([m EXCEPT !.lastUpdate = Now],
           Batch({fetchStats, fetchServices, fetchRDUser, DashboardAutoRefresh}))

DashboardUpdate(m, msg) ==
    CASE msg.type = "statsMsg" -> DashboardUpdate_statsMsg(m, msg)
      [] msg.type = "servicesMsg" -> DashboardUpdate_servicesMsg(m, msg)
      [] msg.type = "rdUserMsg" -> DashboardUpdate_rdUserMsg(m, msg)
      [] msg.type = "refreshMsg" -> DashboardUpdate_refreshMsg(m)
      [] OTHER -> Result(m, NoCmd)

----------------------------------------------------------------------------
(* SettingsModel *)

NewSettingsModel ==
    [loading |-> TRUE, error |-> NoError, settings |-> Nil, lastUpdate |-> ZeroTime,
     width |-> 0, height |-> 0]

SettingsSetSize(m, width, height) == [m EXCEPT !.width = width, !.height = height - 3]

fetchSettings == Cmd("fetchSettings", ScreenSettings, "")
SettingsAutoRefresh == Cmd("autoRefresh", ScreenSettings, "")

SettingsInit == Batch({fetchSettings, SettingsAutoRefresh})

SettingsUpdate_settingsMsg(m, msg) ==
    IF msg.err # ""
    THEN Result([m EXCEPT !.loading = FALSE,
                          !.error = Sprintf("Failed to fetch settings", msg.err)], NoCmd)
    ELSE Result([m EXCEPT !.loading = FALSE, !.settings = msg.val, !.error = NoError], NoCmd)

SettingsUpdate_refreshMsg(m) ==
    Result([m EXCEPT !.lastUpdate = Now], Batch({fetchSettings, SettingsAutoRefresh}))

\* variant: 'r' empties the settings held while the refetch is under way
SettingsUpdate_KeyMsg_Clear(m, msg) ==
    IF msg.key = "r"
    THEN Result([m EXCEPT !.loading = TRUE, !.settings = Nil], Batch({fetchSettings}))
    ELSE Result(m, NoCmd)

SettingsUpdate_KeyMsg(m, msg) ==
    IF msg.key = "r"
    THEN Result([m EXCEPT !.loading = TRUE], Batch({fetchSettings}))
    ELSE Result(m, NoCmd)

SettingsUpdate(m, msg) ==
    CASE msg.type = "settingsMsg" -> SettingsUpdate_settingsMsg(m, msg)
      [] msg.type = "refreshMsg" -> SettingsUpdate_refreshMsg(m)
      [] msg.type = "KeyMsg" -> SettingsUpdate_KeyMsg(m, msg)
      [] OTHER -> Result(m, NoCmd)

----------------------------------------------------------------------------
(* LogsModel.  The viewport's scroll position is display state only and is *)
(* not part of the model; viewport.Update returns no command for the       *)
(* messages of this program.                                               *)

NewLogsModel ==
    [loading |-> TRUE, error |-> NoError, logs |-> Nil, width |-> 0, height |-> 0]

LogsSetSize(m, width, height) == [m EXCEPT !.width = width, !.height = height - 3]

fetchLogs == Cmd("fetchLogs", ScreenLogs, "")

LogsInit == Batch({fetchLogs})

LogsUpdate_KeyMsg(m, msg) ==
    IF msg.key = "r"
    THEN Result([m EXCEPT !.loading = TRUE], Batch({fetchLogs}))
    ELSE Result(m, NoCmd)

LogsUpdate_logsMsg(m, msg) ==
    IF msg.err # ""
    THEN Result([m EXCEPT !.loading = FALSE,
                          !.error = Sprintf("Failed to fetch logs", msg.err)], NoCmd)
    ELSE Result([m EXCEPT !.loading = FALSE, !.logs = msg.val, !.error = NoError], NoCmd)

LogsUpdate(m, msg) ==
    CASE msg.type = "KeyMsg" -> LogsUpdate_KeyMsg(m, msg)
      [] msg.type = "logsMsg" -> LogsUpdate_logsMsg(m, msg)
      [] OTHER -> Result(m, NoCmd)

(* HelpModel.Update returns the model and no command *)
NewHelpModel == [screen |-> "Help", width |-> 0, height |-> 0]

HelpSetSize(m, width, height) == [m EXCEPT !.width = width, !.height = height - 3]

HelpUpdate(m, msg) == Result(m, NoCmd)

----------------------------------------------------------------------------
(* ItemDetailModel.  A nil *ItemDetailModel is the record with nil = TRUE. *)

NilItemDetail ==
    [nil |-> TRUE, itemID |-> "", loading |-> FALSE, error |-> NoError, itemData |-> Nil,
     streams |-> Nil, activeTab |-> 0, lastUpdate |-> ZeroTime, width |-> 0, height |-> 0]

NewItemDetailModel(itemID) ==
    [nil |-> FALSE, itemID |-> itemID, loading |-> TRUE, error |-> NoError, itemData |-> Nil,
     streams |-> Nil, activeTab |-> 0, lastUpdate |-> ZeroTime, width |-> 0, height |-> 0]

ItemDetailSetSize(m, width, height) == [m EXCEPT !.width = width, !.height = height - 3]

fetchItemDetail(m) == Cmd("fetchItemDetail", ScreenItemDetail, m.itemID)
fetchItemStreams(m) == Cmd("fetchItemStreams", ScreenItemDetail, m.itemID)
ItemDetailAutoRefresh == Cmd("autoRefresh", ScreenItemDetail, "")

ItemDetailInit(m) == Batch({fetchItemDetail(m), fetchItemStreams(m), ItemDetailAutoRefresh})

ItemDetailUpdate_itemDetailMsg(m, msg) ==
    IF msg.err # ""
    THEN Result([m EXCEPT !.loading = FALSE,
                          !.error = Sprintf("Failed to fetch item details", msg.err)], NoCmd)
    ELSE Result([m EXCEPT !.loading = FALSE, !.itemData = msg.val, !.error = NoError], NoCmd)

ItemDetailUpdate_itemStreamsMsg(m, msg) ==
    IF msg.err # ""
    THEN Result(m, NoCmd)
    ELSE Result([m EXCEPT !.streams = msg.val], NoCmd)

ItemDetailUpdate_refreshMsg(m) ==
    Result([m EXCEPT !.lastUpdate = Now],
           Batch({fetchItemDetail(m), fetchItemStreams(m), ItemDetailAutoRefresh}))

\* variant: previous tab without the + 3; Go's % keeps the sign of -1
ItemDetailUpdate_KeyMsg_NoWrap(m, msg) ==
    CASE msg.key = "tab" -> Result([m EXCEPT !.activeTab = (m.activeTab + 1) % 3], NoCmd)
      [] msg.key = "shift+tab" ->
            Result([m EXCEPT !.activeTab = IF m.activeTab = 0 THEN -1 ELSE m.activeTab - 1],
                   NoCmd)
      [] msg.key = "r" ->
            Result([m EXCEPT !.loading = TRUE],
                   Batch({fetchItemDetail(m), fetchItemStreams(m)}))
      [] msg.key = "1" -> Result([m EXCEPT !.activeTab = 0], NoCmd)
      [] msg.key = "2" -> Result([m EXCEPT !.activeTab = 1], NoCmd)
      [] msg.key = "3" -> Result([m EXCEPT !.activeTab = 2], NoCmd)
      [] OTHER -> Result(m, NoCmd)

ItemDetailUpdate_KeyMsg(m, msg) ==
    CASE msg.key = "tab" -> Result([m EXCEPT !.activeTab = (m.activeTab + 1) % 3], NoCmd)
      [] msg.key = "shift+tab" ->
            Result([m EXCEPT !.activeTab = (m.activeTab - 1 + 3) % 3], NoCmd)
      [] msg.key = "r" ->
            Result([m EXCEPT !.loading = TRUE],
                   Batch({fetchItemDetail(m), fetchItemStreams(m)}))
      [] msg.key = "1" -> Result([m EXCEPT !.activeTab = 0], NoCmd)
      [] msg.key = "2" -> Result([m EXCEPT !.activeTab = 1], NoCmd)
      [] msg.key = "3" -> Result([m EXCEPT !.activeTab = 2], NoCmd)
      \* the streams table holds one sample row: its cursor cannot move
      [] OTHER -> Result(m, NoCmd)

ItemDetailUpdate(m, msg) ==
    CASE msg.type = "itemDetailMsg" -> ItemDetailUpdate_itemDetailMsg(m, msg)
      [] msg.type = "itemStreamsMsg" -> ItemDetailUpdate_itemStreamsMsg(m, msg)
      [] msg.type = "refreshMsg" -> ItemDetailUpdate_refreshMsg(m)
      [] msg.type = "KeyMsg" -> ItemDetailUpdate_KeyMsg(m, msg)
      [] OTHER -> Result(m, NoCmd)

----------------------------------------------------------------------------
(* ItemsModel.  m.items is a *models.ItemsResponse: total_pages and the    *)
(* ids of its rows; the table's rows are those of m.items (updateTable).   *)

NilItems == [nil |-> TRUE, totalPages |-> 0, rows |-> <<>>]

ItemsResponse(totalPages, rows) == [nil |-> FALSE, totalPages |-> totalPages, rows |-> rows]

NewItemsModel ==
    [loading |-> TRUE, error |-> NoError, items |-> NilItems, states |-> Nil,
     currentPage |-> 1, searchQuery |-> <<>>, filterState |-> "", sortOrder |-> SortDateDesc,
     showSearch |-> FALSE, searchInput |-> <<>>, showActions |-> FALSE, cursor |-> 0,
     lastUpdate |-> ZeroTime, width |-> 0, height |-> 0]

ItemsSetSize(m, width, height) == [m EXCEPT !.width = width, !.height = height - 3]

fetchItems == Cmd("fetchItems", ScreenItems, "")
fetchStates == Cmd("fetchStates", ScreenItems, "")
ItemsAutoRefresh == Cmd("autoRefresh", ScreenItems, "")
Blink == Cmd("Blink", ScreenItems, "")
showItemDetailCmd(itemID) == Cmd("showItemDetailCmd", ScreenItems, itemID)

ItemsInit == Batch({fetchItems, fetchStates, ItemsAutoRefresh})

\* the closure of fetchItems: the request parameters it reads from the model when it runs
ItemsParams(m) ==
    [read |-> TRUE, page |-> m.currentPage, search |-> m.searchQuery,
     filter |-> m.filterState, sort |-> m.sortOrder]

\* variant: a listing that arrives while the model is not loading is discarded
ItemsUpdate_itemsMsg_DropLate(m, msg) ==
    IF msg.err # ""
    THEN Result([m EXCEPT !.loading = FALSE,
                          !.error = Sprintf("Failed to fetch items", msg.err)], NoCmd)
    ELSE IF m.loading
         THEN Result([m EXCEPT !.loading = FALSE, !.items = msg.val, !.error = NoError], NoCmd)
         ELSE Result(m, NoCmd)

ItemsUpdate_itemsMsg(m, msg) ==
    IF msg.err # ""
    THEN Result([m EXCEPT !.loading = FALSE,
                          !.error = Sprintf("Failed to fetch items", msg.err)], NoCmd)
    ELSE Result([m EXCEPT !.loading = FALSE, !.items = msg.val, !.error = NoError], NoCmd)

ItemsUpdate_statesMsg(m, msg) ==
    IF msg.err # ""
    THEN Result(m, NoCmd)
    ELSE Result([m EXCEPT !.states = msg.val], NoCmd)

ItemsUpdate_refreshMsg(m) ==
    Result([m EXCEPT !.lastUpdate = Now], Batch({fetchItems, fetchStates, ItemsAutoRefresh}))

\* textinput.Model.Update on a key press: a rune is appended up to CharLimit
TextInputUpdate(value, key) ==
    IF key \in Runes /\ Len(value) < MaxSearchLen THEN Append(value, key) ELSE value

\* variant: submitting a search keeps the current page
ItemsUpdate_search_KeepPage(m, msg) ==
    CASE msg.key = "enter" ->
            Result([m EXCEPT !.searchQuery = m.searchInput, !.showSearch = FALSE],
                   Batch({fetchItems}))
      [] msg.key = "esc" ->
            Result([m EXCEPT !.showSearch = FALSE, !.searchInput = <<>>], NoCmd)
      [] OTHER ->
            Result([m EXCEPT !.searchInput = TextInputUpdate(m.searchInput, msg.key)], NoCmd)

ItemsUpdate_search(m, msg) ==
    CASE msg.key = "enter" ->
            Result([m EXCEPT !.searchQuery = m.searchInput, !.showSearch = FALSE,
                             !.currentPage = 1], Batch({fetchItems}))
      [] msg.key = "esc" ->
            Result([m EXCEPT !.showSearch = FALSE, !.searchInput = <<>>], NoCmd)
      [] OTHER ->
            Result([m EXCEPT !.searchInput = TextInputUpdate(m.searchInput, msg.key)], NoCmd)

Max(x, y) == IF x > y THEN x ELSE y
Min(x, y) == IF x < y THEN x ELSE y

\* table.Model.Update: up/k and down/j move the cursor within the rows
TableUpdate(m, msg) ==
    LET bottom == Max(Len(m.items.rows) - 1, 0)
    IN  CASE msg.key = "k" -> Result([m EXCEPT !.cursor = Max(m.cursor - 1, 0)], NoCmd)
          [] msg.key = "j" -> Result([m EXCEPT !.cursor = Min(m.cursor + 1, bottom)], NoCmd)
          [] OTHER -> Result(m, NoCmd)

ItemsUpdate_slash(m) == Result([m EXCEPT !.showSearch = TRUE], Batch({Blink}))

ItemsUpdate_r(m) == Result([m EXCEPT !.loading = TRUE], Batch({fetchItems}))

\* variant: next page without the check against total_pages
ItemsUpdate_n_Unbounded(m, msg) ==
    IF ~m.items.nil
    THEN Result([m EXCEPT !.currentPage = m.currentPage + 1, !.loading = TRUE],
                Batch({fetchItems}))
    ELSE TableUpdate(m, msg)

ItemsUpdate_n(m, msg) ==
    IF ~m.items.nil /\ m.currentPage < m.items.totalPages
    THEN Result([m EXCEPT !.currentPage = m.currentPage + 1, !.loading = TRUE],
                Batch({fetchItems}))
    ELSE TableUpdate(m, msg)

ItemsUpdate_p(m, msg) ==
    IF m.currentPage > 1
    THEN Result([m EXCEPT !.currentPage = m.currentPage - 1, !.loading = TRUE],
                Batch({fetchItems}))
    ELSE TableUpdate(m, msg)

ItemsUpdate_digit(m, msg) ==
    LET page == Atoi(msg.key)
    IN  IF ~m.items.nil /\ page <= m.items.totalPages
        THEN Result([m EXCEPT !.currentPage = page, !.loading = TRUE], Batch({fetchItems}))
        ELSE TableUpdate(m, msg)

ItemsUpdate_a(m) == Result([m EXCEPT !.showActions = ~m.showActions], NoCmd)

\* variant: the filter changes and the page is kept
ItemsUpdate_f_KeepPage(m) ==
    LET next == CASE m.filterState = "" -> "Failed"
                  [] m.filterState = "Failed" -> "Completed"
                  [] m.filterState = "Completed" -> "Downloaded"
                  [] OTHER -> ""
    IN  Result([m EXCEPT !.filterState = next, !.loading = TRUE], Batch({fetchItems}))

ItemsUpdate_f(m) ==
    LET next == CASE m.filterState = "" -> "Failed"
                  [] m.filterState = "Failed" -> "Completed"
                  [] m.filterState = "Completed" -> "Downloaded"
                  [] OTHER -> ""
    IN  Result([m EXCEPT !.filterState = next, !.currentPage = 1, !.loading = TRUE],
               Batch({fetchItems}))

\* variant: the case of title-descending is missing and the order stays there
ItemsUpdate_s_NoWrap(m) ==
    LET next == CASE m.sortOrder = SortDateDesc -> SortDateAsc
                  [] m.sortOrder = SortDateAsc -> SortTitleAsc
                  [] m.sortOrder = SortTitleAsc -> SortTitleDesc
                  [] OTHER -> m.sortOrder
    IN  Result([m EXCEPT !.sortOrder = next, !.currentPage = 1, !.loading = TRUE],
               Batch({fetchItems}))

ItemsUpdate_s(m) ==
    LET next == CASE m.sortOrder = SortDateDesc -> SortDateAsc
                  [] m.sortOrder = SortDateAsc -> SortTitleAsc
                  [] m.sortOrder = SortTitleAsc -> SortTitleDesc
                  [] m.sortOrder = SortTitleDesc -> SortDateDesc
                  [] OTHER -> m.sortOrder
    IN  Result([m EXCEPT !.sortOrder = next, !.currentPage = 1, !.loading = TRUE],
               Batch({fetchItems}))

ItemsUpdate_c(m) ==
    Result([m EXCEPT !.searchQuery = <<>>, !.filterState = "", !.sortOrder = SortDateDesc,
                     !.currentPage = 1, !.loading = TRUE], Batch({fetchItems}))

ItemsUpdate_enter(m, msg) ==
    IF /\ ~m.items.nil
       /\ Len(m.items.rows) > 0
       /\ m.cursor < Len(m.items.rows)
       /\ m.items.rows[m.cursor + 1] # ""
    THEN Result(m, Batch({showItemDetailCmd(m.items.rows[m.cursor + 1])}))
    ELSE TableUpdate(m, msg)

ItemsUpdate_KeyMsg(m, msg) ==
    IF m.showSearch
    THEN ItemsUpdate_search(m, msg)
    ELSE CASE msg.key = "/" -> ItemsUpdate_slash(m)
           [] msg.key = "r" -> ItemsUpdate_r(m)
           [] msg.key = "n" -> ItemsUpdate_n(m, msg)
           [] msg.key = "p" -> ItemsUpdate_p(m, msg)
           [] msg.key \in {"1", "2", "3"} -> ItemsUpdate_digit(m, msg)
           [] msg.key = "a" -> ItemsUpdate_a(m)
           [] msg.key = "f" -> ItemsUpdate_f(m)
           [] msg.key = "s" -> ItemsUpdate_s(m)
           [] msg.key = "c" -> ItemsUpdate_c(m)
           [] msg.key = "enter" -> ItemsUpdate_enter(m, msg)
           [] OTHER -> TableUpdate(m, msg)

ItemsUpdate(m, msg) ==
    CASE msg.type = "itemsMsg" -> ItemsUpdate_itemsMsg(m, msg)
      [] msg.type = "statesMsg" -> ItemsUpdate_statesMsg(m, msg)
      [] msg.type = "refreshMsg" -> ItemsUpdate_refreshMsg(m)
      [] msg.type = "KeyMsg" -> ItemsUpdate_KeyMsg(m, msg)
      [] OTHER -> Result(m, NoCmd)

----------------------------------------------------------------------------
(* App *)

\* context.Background(): a context that has no cancel function and is never done
Background == [done |-> FALSE]

\* <-ctx.Done() is ready
Done(ctx) == ctx.done

NewApp ==
    [currentScreen |-> ScreenDashboard,
     ctx |-> Background,
     width |-> 0,
     height |-> 0,
     dashboard |-> NewDashboardModel,
     items |-> NewItemsModel,
     itemDetail |-> NilItemDetail,
     settings |-> NewSettingsModel,
     logs |-> NewLogsModel,
     help |-> NewHelpModel]

EnterAltScreen == Cmd("EnterAltScreen", "App", "")
Quit == Cmd("Quit", "App", "")

AppInit == DashboardInit (+) Batch({EnterAltScreen})

\* the global key bindings of DefaultKeyMap that App.Update matches
KeysQuit == {"q", "ctrl+c"}
KeysDashboard == {"d"}
KeysItems == {"m"}
KeysSettings == {"s"}
KeysLogs == {"l"}
KeysHelp == {"?"}
SwitchKeys == KeysDashboard \cup KeysItems \cup KeysSettings \cup KeysLogs \cup KeysHelp

\* variant: a tick goes to the Dashboard model whichever screen is current
AppUpdate_forward_TickToDashboard(app, msg) ==
    CASE app.currentScreen = ScreenDashboard \/ msg.type = "refreshMsg" ->
            LET r == DashboardUpdate(app.dashboard, msg)
            IN  Result([app EXCEPT !.dashboard = r.m], r.cmd)
      [] app.currentScreen = ScreenItems ->
            LET r == ItemsUpdate(app.items, msg)
            IN  Result([app EXCEPT !.items = r.m], r.cmd)
      [] app.currentScreen = ScreenItemDetail ->
            IF ~app.itemDetail.nil
            THEN LET r == ItemDetailUpdate(app.itemDetail, msg)
                 IN  Result([app EXCEPT !.itemDetail = r.m], r.cmd)
            ELSE Result(app, NoCmd)
      [] app.currentScreen = ScreenSettings ->
            LET r == SettingsUpdate(app.settings, msg)
            IN  Result([app EXCEPT !.settings = r.m], r.cmd)
      [] app.currentScreen = ScreenLogs ->
            LET r == LogsUpdate(app.logs, msg)
            IN  Result([app EXCEPT !.logs = r.m], r.cmd)
      [] app.currentScreen = ScreenHelp ->
            LET r == HelpUpdate(app.help, msg)
            IN  Result([app EXCEPT !.help = r.m], r.cmd)

\* the last block of App.Update: the message goes to the model of the current screen
AppUpdate_forward(app, msg) ==
    CASE app.currentScreen = ScreenDashboard ->
            LET r == DashboardUpdate(app.dashboard, msg)
            IN  Result([app EXCEPT !.dashboard = r.m], r.cmd)
      [] app.currentScreen = ScreenItems ->
            LET r == ItemsUpdate(app.items, msg)
            IN  Result([app EXCEPT !.items = r.m], r.cmd)
      [] app.currentScreen = ScreenItemDetail ->
            IF ~app.itemDetail.nil
            THEN LET r == ItemDetailUpdate(app.itemDetail, msg)
                 IN  Result([app EXCEPT !.itemDetail = r.m], r.cmd)
            ELSE Result(app, NoCmd)
      [] app.currentScreen = ScreenSettings ->
            LET r == SettingsUpdate(app.settings, msg)
            IN  Result([app EXCEPT !.settings = r.m], r.cmd)
      [] app.currentScreen = ScreenLogs ->
            LET r == LogsUpdate(app.logs, msg)
            IN  Result([app EXCEPT !.logs = r.m], r.cmd)
      [] app.currentScreen = ScreenHelp ->
            LET r == HelpUpdate(app.help, msg)
            IN  Result([app EXCEPT !.help = r.m], r.cmd)

\* variant: the key goes to the current screen before the global bindings are tried
AppUpdate_KeyMsg_ForwardFirst(app, msg) ==
    IF msg.key = "esc" /\ app.currentScreen = ScreenItemDetail
    THEN Result([app EXCEPT !.currentScreen = ScreenItems], NoCmd)
    ELSE LET r == AppUpdate_forward(app, msg)
         IN  CASE msg.key \in KeysQuit -> Result(r.m, r.cmd (+) Batch({Quit}))
               [] msg.key \in KeysDashboard ->
                     Result([r.m EXCEPT !.currentScreen = ScreenDashboard],
                            r.cmd (+) DashboardInit)
               [] msg.key \in KeysItems ->
                     Result([r.m EXCEPT !.currentScreen = ScreenItems], r.cmd (+) ItemsInit)
               [] msg.key \in KeysSettings ->
                     Result([r.m EXCEPT !.currentScreen = ScreenSettings],
                            r.cmd (+) SettingsInit)
               [] msg.key \in KeysLogs ->
                     Result([r.m EXCEPT !.currentScreen = ScreenLogs], r.cmd (+) LogsInit)
               [] msg.key \in KeysHelp ->
                     Result([r.m EXCEPT !.currentScreen = ScreenHelp], r.cmd)
               [] OTHER -> r

\* variant: the dashboard key selects the Dashboard without its Init
AppUpdate_KeyMsg_NoInit(app, msg) ==
    IF msg.key = "esc" /\ app.currentScreen = ScreenItemDetail
    THEN Result([app EXCEPT !.currentScreen = ScreenItems], NoCmd)
    ELSE CASE msg.key \in KeysQuit -> Result(app, Batch({Quit}))
           [] msg.key \in KeysDashboard ->
                 Result([app EXCEPT !.currentScreen = ScreenDashboard], NoCmd)
           [] msg.key \in KeysItems ->
                 Result([app EXCEPT !.currentScreen = ScreenItems], ItemsInit)
           [] msg.key \in KeysSettings ->
                 Result([app EXCEPT !.currentScreen = ScreenSettings], SettingsInit)
           [] msg.key \in KeysLogs ->
                 Result([app EXCEPT !.currentScreen = ScreenLogs], LogsInit)
           [] msg.key \in KeysHelp ->
                 Result([app EXCEPT !.currentScreen = ScreenHelp], NoCmd)
           [] OTHER -> AppUpdate_forward(app, msg)

\* variant: the items key starts the item list afresh
AppUpdate_KeyMsg_ResetOnSwitch(app, msg) ==
    IF msg.key = "esc" /\ app.currentScreen = ScreenItemDetail
    THEN Result([app EXCEPT !.currentScreen = ScreenItems], NoCmd)
    ELSE CASE msg.key \in KeysQuit -> Result(app, Batch({Quit}))
           [] msg.key \in KeysDashboard ->
                 Result([app EXCEPT !.currentScreen = ScreenDashboard], DashboardInit)
           [] msg.key \in KeysItems ->
                 Result([app EXCEPT !.currentScreen = ScreenItems,
                                    !.items = ItemsSetSize(NewItemsModel, app.width, app.height)],
                        ItemsInit)
           [] msg.key \in KeysSettings ->
                 Result([app EXCEPT !.currentScreen = ScreenSettings], SettingsInit)
           [] msg.key \in KeysLogs ->
                 Result([app EXCEPT !.currentScreen = ScreenLogs], LogsInit)
           [] msg.key \in KeysHelp ->
                 Result([app EXCEPT !.currentScreen = ScreenHelp], NoCmd)
           [] OTHER -> AppUpdate_forward(app, msg)

\* variant: esc on ItemDetail goes to the Dashboard
AppUpdate_KeyMsg_EscToDashboard(app, msg) ==
    IF msg.key = "esc" /\ app.currentScreen = ScreenItemDetail
    THEN Result([app EXCEPT !.currentScreen = ScreenDashboard], NoCmd)
    ELSE CASE msg.key \in KeysQuit -> Result(app, Batch({Quit}))
           [] msg.key \in KeysDashboard ->
                 Result([app EXCEPT !.currentScreen = ScreenDashboard], DashboardInit)
           [] msg.key \in KeysItems ->
                 Result([app EXCEPT !.currentScreen = ScreenItems], ItemsInit)
           [] msg.key \in KeysSettings ->
                 Result([app EXCEPT !.currentScreen = ScreenSettings], SettingsInit)
           [] msg.key \in KeysLogs ->
                 Result([app EXCEPT !.currentScreen = ScreenLogs], LogsInit)
           [] msg.key \in KeysHelp ->
                 Result([app EXCEPT !.currentScreen = ScreenHelp], NoCmd)
           [] OTHER -> AppUpdate_forward(app, msg)

AppUpdate_KeyMsg(app, msg) ==
    IF msg.key = "esc" /\ app.currentScreen = ScreenItemDetail
    THEN Result([app EXCEPT !.currentScreen = ScreenItems], NoCmd)
    ELSE CASE msg.key \in KeysQuit -> Result(app, Batch({Quit}))
           [] msg.key \in KeysDashboard ->
                 Result([app EXCEPT !.currentScreen = ScreenDashboard], DashboardInit)
           [] msg.key \in KeysItems ->
                 Result([app EXCEPT !.currentScreen = ScreenItems], ItemsInit)
           [] msg.key \in KeysSettings ->
                 Result([app EXCEPT !.currentScreen = ScreenSettings], SettingsInit)
           [] msg.key \in KeysLogs ->
                 Result([app EXCEPT !.currentScreen = ScreenLogs], LogsInit)
           [] msg.key \in KeysHelp ->
                 Result([app EXCEPT !.currentScreen = ScreenHelp], NoCmd)
           [] OTHER -> AppUpdate_forward(app, msg)

\* variant: an ItemDetail model that already exists is kept
AppUpdate_showItemDetailMsg_Reuse(app, msg) ==
    LET d == IF app.itemDetail.nil
             THEN ItemDetailSetSize(NewItemDetailModel(msg.itemID), app.width, app.height)
             ELSE app.itemDetail
    IN  Result([app EXCEPT !.itemDetail = d, !.currentScreen = ScreenItemDetail],
               ItemDetailInit(d))

\* variant: the navigation message selects ItemDetail and builds no model
AppUpdate_showItemDetailMsg_ScreenOnly(app, msg) ==
    Result([app EXCEPT !.currentScreen = ScreenItemDetail], NoCmd)

AppUpdate_showItemDetailMsg(app, msg) ==
    LET d == ItemDetailSetSize(NewItemDetailModel(msg.itemID), app.width, app.height)
    IN  Result([app EXCEPT !.itemDetail = d, !.currentScreen = ScreenItemDetail],
               ItemDetailInit(d))

\* the resize case sets the sizes and falls through to the last block
AppUpdate_WindowSizeMsg(app, msg) ==
    AppUpdate_forward(
        [app EXCEPT !.width = msg.width,
                    !.height = msg.height,
                    !.dashboard = DashboardSetSize(@, msg.width, msg.height),
                    !.items = ItemsSetSize(@, msg.width, msg.height),
                    !.settings = SettingsSetSize(@, msg.width, msg.height),
                    !.logs = LogsSetSize(@, msg.width, msg.height),
                    !.help = HelpSetSize(@, msg.width, msg.height)],
        msg)

AppUpdate(app, msg) ==
    CASE msg.type = "WindowSizeMsg" -> AppUpdate_WindowSizeMsg(app, msg)
      [] msg.type = "KeyMsg" -> AppUpdate_KeyMsg(app, msg)
      [] msg.type = "showItemDetailMsg" -> AppUpdate_showItemDetailMsg(app, msg)
      [] OTHER -> AppUpdate_forward(app, msg)

----------------------------------------------------------------------------
(* The runtime: commands run concurrently with the loop and each delivers  *)
(* one message; the service answers a fetch with a payload or an error.    *)

\* the message type a fetch command produces, the screen whose Update handles
\* it, and the field of that screen's model it is stored in
FetchKinds ==
    {"fetchStats", "fetchServices", "fetchRDUser", "fetchItems", "fetchStates",
     "fetchItemDetail", "fetchItemStreams", "fetchSettings", "fetchLogs"}

MsgType(kind) ==
    CASE kind = "fetchStats" -> "statsMsg"
      [] kind = "fetchServices" -> "servicesMsg"
      [] kind = "fetchRDUser" -> "rdUserMsg"
      [] kind = "fetchItems" -> "itemsMsg"
      [] kind = "fetchStates" -> "statesMsg"
      [] kind = "fetchItemDetail" -> "itemDetailMsg"
      [] kind = "fetchItemStreams" -> "itemStreamsMsg"
      [] kind = "fetchSettings" -> "settingsMsg"
      [] kind = "fetchLogs" -> "logsMsg"

PayloadField(kind) ==
    CASE kind = "fetchStats" -> "stats"
      [] kind = "fetchServices" -> "services"
      [] kind = "fetchRDUser" -> "rdUser"
      [] kind = "fetchItems" -> "items"
      [] kind = "fetchStates" -> "states"
      [] kind = "fetchItemDetail" -> "itemData"
      [] kind = "fetchItemStreams" -> "streams"
      [] kind = "fetchSettings" -> "settings"
      [] kind = "fetchLogs" -> "logs"

\* what the closure of a fetch command can return, the service answering from env
FetchResults(cmd, env) ==
    LET ok == IF cmd.kind = "fetchItems" THEN env.listings ELSE env.payloads
        none == IF cmd.kind = "fetchItems" THEN NilItems ELSE Nil
    IN  {[type |-> MsgType(cmd.kind), val |-> v, err |-> ""] : v \in ok}
            \cup {[type |-> MsgType(cmd.kind), val |-> none, err |-> e] : e \in env.errs}

\* the client's calls that change items of the service
MutatingKinds == {"RemoveItems", "RetryItems", "ResetItems", "PauseItems", "UnpauseItems"}

Terminal == Cmd("terminal", "App", "")

NoPayloads ==
    [stats |-> Nil, services |-> Nil, rdUser |-> Nil, items |-> NilItems, states |-> Nil,
     itemData |-> Nil, streams |-> Nil, settings |-> Nil, logs |-> Nil]

\* the model of screen sc in the App
ModelOf(app, sc) ==
    CASE sc = ScreenDashboard -> app.dashboard
      [] sc = ScreenItems -> app.items
      [] sc = ScreenItemDetail -> app.itemDetail
      [] sc = ScreenSettings -> app.settings
      [] sc = ScreenLogs -> app.logs
      [] sc = ScreenHelp -> app.help

\* history of the successful results applied: cmd's message msg reaches the
\* Update of the screen that handles its type only while that screen is current
NextLastOK(cmd, msg) ==
    CASE cmd.kind \in FetchKinds /\ msg.err = "" /\ a.currentScreen = cmd.owner
            /\ ~(cmd.owner = ScreenItemDetail /\ a.itemDetail.nil) ->
            [lastOK EXCEPT ![PayloadField(cmd.kind)] = msg.val]
      [] cmd.kind = "showItemDetailCmd" ->
            [lastOK EXCEPT !.itemData = Nil, !.streams = Nil]
      [] OTHER -> lastOK

ItemFetches(B) == {c \in BagToSet(B) : c.kind = "fetchItems"}
CountItemFetches(B) ==
    LET S == ItemFetches(B)
        RECURSIVE Sum(_)
        Sum(T) == IF T = {} THEN 0
                  ELSE LET c == CHOOSE x \in T : TRUE IN CopiesIn(c, B) + Sum(T \ {c})
    IN  Sum(S)

\* history of two item-listing fetches in flight together whose results are
\* then both applied, one after the other, with ItemList current throughout
NextOverlap(cmd, msg, r) ==
    CASE cmd.kind = "fetchItems" /\ a.currentScreen = ScreenItems /\ msg.err = "" ->
            IF overlap = 1 THEN 2
            ELSE IF CountItemFetches(pending) >= 2 THEN 1 ELSE 0
      [] overlap = 1 /\ r.m.currentScreen = ScreenItems /\ ItemFetches(r.cmd) = {}
            /\ cmd.kind # "fetchItems" -> 1
      [] OTHER -> 0

\* one step of the loop: msg, produced by cmd, is handled by App.Update
\* the listing fetches Update returned, each with the parameters of the item
\* list as Update left it
NextIssued(r) ==
    IF BagIn(fetchItems, r.cmd)
    THEN issued (+) [p \in {ItemsParams(r.m.items)} |-> CopiesIn(fetchItems, r.cmd)]
    ELSE issued

Handle(cmd, msg, taken, env) ==
    LET r == AppUpdate(a, msg)
        rest == pending (-) taken
    IN  /\ ~quitted
        /\ BagCardinality(rest (+) r.cmd) <= env.maxPending
        /\ a' = r.m
        /\ pending' = rest (+) r.cmd
        /\ last' = [msg |-> msg, from |-> cmd, cmd |-> r.cmd, screen |-> a.currentScreen]
        /\ lastOK' = NextLastOK(cmd, msg)
        /\ overlap' = NextOverlap(cmd, msg, r)
        /\ issued' = NextIssued(r)
        /\ UNCHANGED <<sse, ev, cfg>>

----------------------------------------------------------------------------
(* Client.StreamEventsSSE(ctx, eventChan).  A response is its status, the  *)
(* lines of its body in order and the way the body ends.  A line is the    *)
(* text up to and including its first space (head), the JSON it carries,   *)
(* if any, and whether it is longer than the scanner's token limit.        *)

\* capacity of eventChan (50 in NewEventsModel), scaled down
ChanCap == 2
\* largest number of lines in a response body
MaxLines == 3

StatusOK == 200
Statuses == {StatusOK, 204, 500}

Events == {"e1", "e2"}

DataLine(e) == [head |-> "data: ", json |-> TRUE, event |-> e, long |-> FALSE]
BadDataLine == [head |-> "data: ", json |-> FALSE, event |-> "", long |-> FALSE]
CommentLine == [head |-> ": ", json |-> FALSE, event |-> "", long |-> FALSE]
NoSpaceLine == [head |-> "data:", json |-> TRUE, event |-> "e1", long |-> FALSE]
\* a line above bufio.MaxScanTokenSize (64 KiB), the limit of bufio.NewScanner
LongLine == [head |-> "data: ", json |-> TRUE, event |-> "e2", long |-> TRUE]

Lines == {DataLine(e) : e \in Events} \cup {BadDataLine, CommentLine, NoSpaceLine, LongLine}

HasPrefix(line, prefix) == line.head = prefix

\* json.Unmarshal of the text after the prefix into a models.Event
Unmarshal(line) ==
    IF line.json THEN [err |-> FALSE, event |-> line.event]
    ELSE [err |-> TRUE, event |-> ""]

When(c, S) == IF c THEN S ELSE {}

SeqsUpTo(S, n) == UNION {[1..k -> S] : k \in 0..n}

Responses(lines) ==
    [connErr : BOOLEAN, status : Statuses, lines : lines, ending : {"EOF", "reset"}]

\* the goroutine running StreamEventsSSE: where it is, the lines not yet
\* scanned, the event decoded and not yet sent, and the value returned
NewReader(resp) ==
    [pc |-> "Do", resp |-> resp, rest |-> <<>>, hand |-> "", ret |-> "running"]

Returned(r, ret) == [r EXCEPT !.pc = "Returned", !.ret = ret, !.hand = ""]

\* variant: the body is scanned whatever the status
ReaderDo_AnyStatus(r, done) ==
    IF done THEN Returned(r, "context canceled")
    ELSE IF r.resp.connErr THEN Returned(r, "connection refused")
    ELSE [r EXCEPT !.pc = "Scan", !.rest = r.resp.lines]

\* httpClient.Do and the status check
ReaderDo(r, done) ==
    IF done THEN Returned(r, "context canceled")
    ELSE IF r.resp.connErr THEN Returned(r, "connection refused")
    ELSE IF r.resp.status # StatusOK THEN Returned(r, "event stream failed with status")
    ELSE [r EXCEPT !.pc = "Scan", !.rest = r.resp.lines]

\* scanner.Scan() and the body of the loop up to the select
ReaderScan(r) ==
    IF r.rest = <<>>
    THEN Returned(r, IF r.resp.ending = "EOF" THEN "nil" ELSE "unexpected EOF")
    ELSE LET line == Head(r.rest)
         IN  IF line.long THEN Returned(r, "bufio.Scanner: token too long")
             ELSE IF HasPrefix(line, "data: ") /\ ~Unmarshal(line).err
                  THEN [r EXCEPT !.pc = "Send", !.hand = Unmarshal(line).event,
                                 !.rest = Tail(r.rest)]
                  ELSE [r EXCEPT !.rest = Tail(r.rest)]

\* variant: an event that finds the channel full is dropped
ReaderSteps_DropWhenFull(r, ch, done) ==
    LET cancelled == When(done, {[r |-> Returned(r, "context canceled"), ch |-> ch]})
        sent == [r EXCEPT !.pc = "Scan", !.hand = ""]
    IN  CASE r.pc = "Do" -> {[r |-> ReaderDo(r, done), ch |-> ch]}
          [] r.pc = "Scan" -> {[r |-> ReaderScan(r), ch |-> ch]} \cup cancelled
          [] r.pc = "Send" ->
                {[r |-> sent, ch |-> IF Len(ch) < ChanCap THEN Append(ch, r.hand) ELSE ch]}
                    \cup cancelled
          [] OTHER -> {}

\* the steps the reader can take: the reader after the step and the channel.
\* With ctx cancelled the body read fails, but lines already buffered are
\* still scanned; a select with both cases ready takes either.
ReaderSteps(r, ch, done) ==
    LET cancelled == When(done, {[r |-> Returned(r, "context canceled"), ch |-> ch]})
    IN  CASE r.pc = "Do" -> {[r |-> ReaderDo(r, done), ch |-> ch]}
          [] r.pc = "Scan" -> {[r |-> ReaderScan(r), ch |-> ch]} \cup cancelled
          [] r.pc = "Send" ->
                When(Len(ch) < ChanCap,
                     {[r |-> [r EXCEPT !.pc = "Scan", !.hand = ""], ch |-> Append(ch, r.hand)]})
                    \cup cancelled
          [] OTHER -> {}

NoStream ==
    [r |-> Returned(NewReader([connErr |-> TRUE, status |-> StatusOK, lines |-> <<>>,
                               ending |-> "EOF"]), "none"),
     ch |-> <<>>, done |-> FALSE, recv |-> <<>>]

----------------------------------------------------------------------------
(* EventsModel.  Its commands are run by the runtime in goroutines of      *)
(* their own; the goroutine started by startEventStreaming runs            *)
(* StreamEventsSSE on m.eventChan.                                         *)

\* maxEvents (100 in NewEventsModel), scaled down
MaxEventsKept == 2
\* number of key presses explored in one run of the Events screen
MaxEvKeys == 2

NewEventsModel ==
    [loading |-> FALSE, error |-> NoError, events |-> <<>>, streaming |-> FALSE,
     lastUpdate |-> ZeroTime]

startEventStreaming == "startEventStreaming"
listenForEvents == "listenForEvents"
\* tea.Tick(5*time.Second, ...) whose message is the key press "r"
ReconnectTick == "reconnectTick"

EventsInit == Batch({startEventStreaming, listenForEvents})

\* variant: the list is never trimmed
addEvent_KeepAll(m, event) ==
    [m EXCEPT !.events = <<event>> \o m.events, !.lastUpdate = Now]

addEvent(m, event) ==
    LET es == <<event>> \o m.events
    IN  [m EXCEPT !.events = IF Len(es) > MaxEventsKept THEN SubSeq(es, 1, MaxEventsKept)
                             ELSE es,
                  !.lastUpdate = Now]

EventsUpdate_eventMsg(m, msg) == Result(addEvent(m, msg.event), NoCmd)

EventsUpdate_eventsErrorMsg(m, msg) ==
    Result([m EXCEPT !.error = Sprintf("Event streaming error", msg.err),
                     !.streaming = FALSE],
           Batch({ReconnectTick}))

EventsUpdate_KeyMsg(m, msg) ==
    CASE msg.key = "r" -> Result([m EXCEPT !.error = NoError], EventsInit)
      [] msg.key = "c" -> Result([m EXCEPT !.events = <<>>], NoCmd)
      [] msg.key = "s" ->
            IF m.streaming
            THEN Result([m EXCEPT !.streaming = FALSE], NoCmd)
            ELSE Result(m, EventsInit)
      [] OTHER -> Result(m, NoCmd)

\* a message of any other type, the tea.Cmd that listenForEvents returns as
\* its message on a timeout included, matches no case
EventsUpdate(m, msg) ==
    CASE msg.type = "eventMsg" -> EventsUpdate_eventMsg(m, msg)
      [] msg.type = "eventsErrorMsg" -> EventsUpdate_eventsErrorMsg(m, msg)
      [] msg.type = "KeyMsg" -> EventsUpdate_KeyMsg(m, msg)
      [] OTHER -> Result(m, NoCmd)

\* the program constructs no EventsModel
NoEvents == [nil |-> TRUE]

\* an EventsModel in a loop of its own: the model, the commands returned and
\* not yet run, the reader goroutines, eventChan and ctx; then history: the
\* kind of the last step, the message it handled, whether a reader has ended
\* with an error while ctx was not done, the key presses so far, and the
\* events handled since the list was last empty by construction or by key c
NewEvents ==
    [nil |-> FALSE, m |-> NewEventsModel, cmds |-> EventsInit, readers |-> EmptyBag,
     ch |-> <<>>, done |-> FALSE,
     step |-> "Init", msg |-> "none", failed |-> FALSE, keys |-> 0, hist |-> <<>>]

\* one call of EventsModel.Update by the loop
EventsHandle(e, msg, taken) ==
    LET r == EventsUpdate(e.m, msg)
    IN  [e EXCEPT !.m = r.m, !.cmds = (e.cmds (-) taken) (+) r.cmd,
                  !.step = "Update", !.msg = msg.type,
                  !.hist = CASE msg.type = "eventMsg" -> Append(@, msg.event)
                             [] msg = KeyMsg("c") -> <<>>
                             [] OTHER -> @]

\* the closure of startEventStreaming: it sets m.streaming and starts the goroutine
RunStartEventStreaming(e, resp) ==
    [e EXCEPT !.m.streaming = TRUE,
              !.cmds = e.cmds (-) Batch({startEventStreaming}),
              !.readers = e.readers (+) Batch({NewReader(resp)}),
              !.step = "startEventStreaming", !.msg = "none"]

\* the closure of listenForEvents: an event of the channel becomes an
\* eventMsg; with ctx done the command may return nil, which the runtime
\* drops; with nothing to receive for 100 ms it returns a tea.Cmd as its message
RunListenForEvents(e) ==
    LET taken == Batch({listenForEvents})
        gone == [e EXCEPT !.cmds = e.cmds (-) taken, !.step = "listenForEvents",
                          !.msg = "none"]
    IN  When(e.ch # <<>>,
             {EventsHandle([e EXCEPT !.ch = Tail(e.ch)],
                           [type |-> "eventMsg", event |-> Head(e.ch)], taken)})
        \cup When(e.done, {gone})
        \cup When(e.ch = <<>> /\ ~e.done, {EventsHandle(e, [type |-> "tea.Cmd"], taken)})

\* a step of a reader goroutine; when StreamEventsSSE returns an error and
\* ctx is not done the goroutine sets m.streaming to false and ends
RunReader(e, r, o) ==
    LET ended == o.r.pc = "Returned"
        err == ended /\ o.r.ret # "nil" /\ ~Done(e)
    IN  [e EXCEPT !.readers = (e.readers (-) Batch({r}))
                                (+) (IF ended THEN EmptyBag ELSE Batch({o.r})),
                  !.ch = o.ch,
                  !.m.streaming = IF err THEN FALSE ELSE @,
                  !.failed = @ \/ err,
                  !.step = "reader", !.msg = "none"]

----------------------------------------------------------------------------
(* The configuration (package config).  Durations are in seconds; "" is    *)
(* the empty string and, for an error, nil.                                *)

DefaultConfig ==
    [API |-> [Endpoint |-> "http://localhost:8080", Token |-> "", Timeout |-> 30],
     UI |-> [RefreshInterval |-> 5, Theme |-> "default", PageSize |-> 50]]

\* what validateConfig returns, and the configuration it leaves behind its pointer
validateConfig(config) ==
    CASE config.API.Endpoint = "" -> [err |-> "API endpoint is required", config |-> config]
      [] config.API.Token = "" -> [err |-> "Bearer token is required", config |-> config]
      [] config.API.Timeout <= 0 -> [err |-> "API timeout must be positive", config |-> config]
      [] config.UI.RefreshInterval <= 0 ->
            [err |-> "UI refresh interval must be positive", config |-> config]
      [] OTHER ->
            [err |-> "",
             config |-> IF config.UI.PageSize <= 0
                        THEN [config EXCEPT !.UI.PageSize = 50]
                        ELSE config]

\* the configurations validateConfig is called on
Configs ==
    [API : [Endpoint : {"", "http://localhost:8080"}, Token : {"", "secret"},
            Timeout : {-1, 0, 30}],
     UI : [RefreshInterval : {-1, 0, 5}, Theme : {"default"}, PageSize : {-1, 0, 1, 50}]]

\* the loop does not read the configuration
NoConfig == [pc |-> "none"]

----------------------------------------------------------------------------
(* The program: NewApp, App.Init and the steps of the loop *)

InitLoop ==
    /\ a = NewApp
    /\ pending = AppInit
    /\ quitted = FALSE
    /\ last = [msg |-> [type |-> "none"], from |-> Terminal, cmd |-> AppInit,
               screen |-> ScreenDashboard]
    /\ lastOK = NoPayloads
    /\ used = [keys |-> 0, nav |-> 0, ticks |-> 0]
    /\ overlap = 0
    /\ issued = EmptyBag

\* the program constructs no EventsModel and never calls StreamEventsSSE
Init ==
    /\ InitLoop
    /\ sse = NoStream
    /\ ev = NoEvents
    /\ cfg = NoConfig

\* the user presses a key
KeyPress(env) ==
    \E k \in env.keys :
        /\ used.keys < env.maxKeys
        /\ k \in SwitchKeys => used.nav < env.maxNav
        /\ Handle(Terminal, KeyMsg(k), EmptyBag, env)
        /\ used' = [used EXCEPT !.keys = @ + 1,
                                !.nav = IF k \in SwitchKeys THEN @ + 1 ELSE @]
        /\ UNCHANGED quitted

\* the closure of a fetchItems command runs and reads its parameters from the model
RunFetchItems ==
    \E c \in BagToSet(pending) :
        /\ c.kind = "fetchItems" /\ ~c.params.read /\ ~quitted
        /\ pending' = (pending (-) SetToBag({c}))
                        (+) SetToBag({[c EXCEPT !.params = ItemsParams(a.items)]})
        /\ last' = [msg |-> [type |-> "none"], from |-> c, cmd |-> EmptyBag,
                    screen |-> a.currentScreen]
        /\ \E p \in BagToSet(issued) :
                /\ BagIn(ItemsParams(a.items), issued) => p = ItemsParams(a.items)
                /\ issued' = issued (-) SetToBag({p})
        /\ UNCHANGED <<a, quitted, lastOK, used, overlap, sse, ev, cfg>>

\* a fetch completes and its result message is handled
FetchResult(env) ==
    \E c \in BagToSet(pending) :
        /\ c.kind \in FetchKinds
        /\ c.kind = "fetchItems" => c.params.read
        /\ \E msg \in FetchResults(c, env) : Handle(c, msg, SetToBag({c}), env)
        /\ UNCHANGED <<quitted, used>>

\* an auto-refresh timer fires
Tick(env) ==
    \E c \in BagToSet(pending) :
        /\ c.kind = "autoRefresh"
        /\ used.ticks < env.maxTicks
        /\ Handle(c, [type |-> "refreshMsg"], SetToBag({c}), env)
        /\ used' = [used EXCEPT !.ticks = @ + 1]
        /\ UNCHANGED quitted

\* the navigation request of showItemDetailCmd is handled
Navigate(env) ==
    \E c \in BagToSet(pending) :
        /\ c.kind = "showItemDetailCmd"
        /\ Handle(c, [type |-> "showItemDetailMsg", itemID |-> c.id], SetToBag({c}), env)
        /\ UNCHANGED <<quitted, used>>

\* the messages of textinput.Blink and tea.EnterAltScreen pass through Update
Internal(env) ==
    \E c \in BagToSet(pending) :
        /\ c.kind \in {"Blink", "EnterAltScreen"}
        /\ Handle(c, [type |-> c.kind], SetToBag({c}), env)
        /\ UNCHANGED <<quitted, used>>

\* the terminal is resized
Resize(env) ==
    \E size \in env.sizes :
        /\ <<a.width, a.height>> # <<size.width, size.height>>
        /\ Handle(Terminal, [type |-> "WindowSizeMsg", width |-> size.width,
                             height |-> size.height], EmptyBag, env)
        /\ UNCHANGED <<quitted, used>>

\* the runtime handles the message of tea.Quit and leaves the loop
RunQuit ==
    /\ ~quitted
    /\ BagIn(Quit, pending)
    /\ quitted' = TRUE
    /\ last' = [msg |-> [type |-> "QuitMsg"], from |-> Quit, cmd |-> EmptyBag,
                screen |-> a.currentScreen]
    /\ UNCHANGED <<a, pending, lastOK, used, overlap, issued, sse, ev, cfg>>

----------------------------------------------------------------------------
(* Specifications.  Each one runs the program in an environment: the keys  *)
(* the user presses, the answers of the service, and bounds on the run.    *)

\* Spec: navigation between the screens and auto-refresh
EnvNav ==
    [keys |-> {"d", "m", "s", "l", "?", "q", "esc", "enter"},
     payloads |-> {"v1"}, listings |-> {ItemsResponse(1, <<"42", "7">>)}, errs |-> {},
     maxKeys |-> MaxKeys, maxNav |-> MaxNav, maxTicks |-> MaxTicks,
     maxPending |-> MaxPending]

Next ==
    \/ KeyPress(EnvNav)
    \/ RunFetchItems
    \/ FetchResult(EnvNav)
    \/ Tick(EnvNav)
    \/ Navigate(EnvNav)
    \/ Internal(EnvNav)
    \/ RunQuit

Spec == Init /\ [][Next]_vars

\* SpecFetch: the service answers every fetch with one of two payloads or fails
EnvFetch ==
    [keys |-> {"d", "m", "s", "l", "r", "enter"},
     payloads |-> Payloads,
     listings |-> {ItemsResponse(1, <<"42">>)},
     errs |-> Errs,
     maxKeys |-> MaxFetchKeys, maxNav |-> MaxNav, maxTicks |-> 0,
     maxPending |-> MaxPending]

NextFetch ==
    \/ KeyPress(EnvFetch)
    \/ RunFetchItems
    \/ FetchResult(EnvFetch)
    \/ Navigate(EnvFetch)
    \/ Internal(EnvFetch)

SpecFetch == Init /\ [][NextFetch]_vars

\* SpecItems: the item list with its search input and its pages, the
\* listing's total_pages changing from one answer to the next
EnvItems ==
    [keys |-> {"m", "/", "x", "enter", "esc", "n", "r"},
     payloads |-> {"v1"},
     listings |-> {ItemsResponse(tp, <<"42">>) : tp \in 1..MaxPages},
     errs |-> {},
     maxKeys |-> MaxKeys, maxNav |-> MaxNav, maxTicks |-> 0,
     maxPending |-> MaxPending]

NextItems ==
    \/ KeyPress(EnvItems)
    \/ RunFetchItems
    \/ FetchResult(EnvItems)
    \/ Navigate(EnvItems)
    \/ Internal(EnvItems)

SpecItems == Init /\ [][NextItems]_vars

\* SpecItemsModel: ItemsModel.Update called directly, as App.Update calls it
\* for a message it forwards while ItemList is current, on every key of
\* the list's browsing mode, every listing result and every tick
EnvItemsModel ==
    [keys |-> {"f", "s", "c", "n", "p", "1", "2", "3", "r", "a", "j"},
     payloads |-> {"v1"},
     listings |-> {ItemsResponse(tp, <<"42", "7">>) : tp \in 0..MaxPages},
     errs |-> Errs]

ItemsModelStep(msg) ==
    LET r == ItemsUpdate(a.items, msg)
    IN  /\ a' = [a EXCEPT !.items = r.m]
        /\ last' = [msg |-> msg, from |-> Terminal, cmd |-> r.cmd, screen |-> ScreenItems]
        /\ UNCHANGED <<pending, quitted, lastOK, used, overlap, issued, sse, ev, cfg>>

ItemsModelKey(env) == \E k \in env.keys : ItemsModelStep(KeyMsg(k))

ItemsModelResult(env) ==
    \E msg \in FetchResults(fetchItems, env) \cup FetchResults(fetchStates, env) :
        ItemsModelStep(msg)

ItemsModelTick == ItemsModelStep([type |-> "refreshMsg"])

NextItemsModel ==
    \/ ItemsModelKey(EnvItemsModel)
    \/ ItemsModelResult(EnvItemsModel)
    \/ ItemsModelTick

SpecItemsModel == Init /\ [][NextItemsModel]_vars

\* SpecResize: the terminal changes size while the user opens and leaves
\* the detail of an item
EnvResize ==
    [keys |-> {"m", "enter", "esc", "l"},
     sizes |-> {[width |-> 80, height |-> 24], [width |-> 120, height |-> 40]},
     payloads |-> {"v1"}, listings |-> {ItemsResponse(1, <<"42">>)}, errs |-> {},
     maxKeys |-> MaxKeys, maxNav |-> MaxNav, maxTicks |-> 0,
     maxPending |-> MaxPending]

NextResize ==
    \/ KeyPress(EnvResize)
    \/ Resize(EnvResize)
    \/ RunFetchItems
    \/ FetchResult(EnvResize)
    \/ Navigate(EnvResize)
    \/ Internal(EnvResize)

SpecResize == Init /\ [][NextResize]_vars

\* SpecActions: the keys of the item list, of its actions menu ("[r]etry
\* [R]eset [d]elete [p]ause [u]npause") and of the detail's Actions tab; the
\* runtime delivers the message of every command and the user goes on
\* pressing keys for ever
EnvActions ==
    [keys |-> {"m", "enter", "a", "r", "R", "d", "p", "u", "3"},
     payloads |-> {"v1"}, listings |-> {ItemsResponse(1, <<"42">>)}, errs |-> {},
     maxKeys |-> MaxKeys, maxNav |-> MaxNav, maxTicks |-> 0,
     maxPending |-> MaxPending]

\* the user presses a key, any number of times in a run
Press(env) ==
    \E k \in env.keys :
        /\ Handle(Terminal, KeyMsg(k), EmptyBag, env)
        /\ UNCHANGED <<quitted, used>>

NextActions ==
    \/ Press(EnvActions)
    \/ RunFetchItems
    \/ FetchResult(EnvActions)
    \/ Navigate(EnvActions)
    \/ Internal(EnvActions)

SpecActions ==
    /\ Init
    /\ [][NextActions]_vars
    /\ WF_vars(Press(EnvActions))
    /\ WF_vars(RunFetchItems)
    /\ WF_vars(FetchResult(EnvActions))
    /\ WF_vars(Navigate(EnvActions))
    /\ WF_vars(Internal(EnvActions))

\* SpecSearch: ItemsModel.Update called directly on the keys of the search
\* input and of paging, the service answering with a listing of two pages
EnvSearch ==
    [keys |-> {"/", "x", "enter", "esc", "n"},
     payloads |-> {"v1"},
     listings |-> {ItemsResponse(MaxPages, <<"42">>)},
     errs |-> {}]

NextSearch ==
    \/ ItemsModelKey(EnvSearch)
    \/ ItemsModelResult(EnvSearch)

SpecSearch == Init /\ [][NextSearch]_vars

\* SpecTabs: the user opens the detail of an item and goes through its
\* tabs, pressing keys any number of times
EnvTabs ==
    [keys |-> {"m", "enter", "esc", "tab", "shift+tab", "1", "2", "3"},
     payloads |-> {"v1"}, listings |-> {ItemsResponse(1, <<"42">>)}, errs |-> {},
     maxKeys |-> MaxKeys, maxNav |-> MaxNav, maxTicks |-> 0,
     maxPending |-> MaxPending]

NextTabs ==
    \/ Press(EnvTabs)
    \/ RunFetchItems
    \/ FetchResult(EnvTabs)
    \/ Navigate(EnvTabs)
    \/ Internal(EnvTabs)

SpecTabs == Init /\ [][NextTabs]_vars

\* SpecTimers: the user selects the Dashboard and the item list any number
\* of times while up to MaxTimerPending commands are pending
MaxTimerPending == 8

EnvTimers ==
    [keys |-> {"d", "m"},
     payloads |-> {"v1"}, listings |-> {ItemsResponse(1, <<"42">>)}, errs |-> {},
     maxKeys |-> MaxKeys, maxNav |-> MaxNav, maxTicks |-> MaxTicks,
     maxPending |-> MaxTimerPending]

NextTimers ==
    \/ Press(EnvTimers)
    \/ RunFetchItems
    \/ FetchResult(EnvTimers)
    \/ Tick(EnvTimers)
    \/ Internal(EnvTimers)

SpecTimers == Init /\ [][NextTimers]_vars

\* SpecDetail: the user refreshes the item list and opens one item after
\* another while the fetches issued before are still under way
MaxDetailKeys == 5
MaxDetailPending == 7

EnvDetail ==
    [keys |-> {"m", "enter", "esc", "j", "r"},
     payloads |-> {"v1"}, listings |-> {ItemsResponse(1, <<"42", "7">>)}, errs |-> {},
     maxKeys |-> MaxDetailKeys, maxNav |-> MaxNav, maxTicks |-> 0,
     maxPending |-> MaxDetailPending]

NextDetail ==
    \/ KeyPress(EnvDetail)
    \/ RunFetchItems
    \/ FetchResult(EnvDetail)
    \/ Navigate(EnvDetail)
    \/ Internal(EnvDetail)

SpecDetail == Init /\ [][NextDetail]_vars

\* SpecConfig: validateConfig called on a configuration of Configs
InitConfig ==
    /\ InitLoop
    /\ sse = NoStream
    /\ ev = NoEvents
    /\ \E config \in Configs :
            cfg = [pc |-> "loaded", input |-> config, config |-> config, err |-> ""]

Validate ==
    /\ cfg.pc = "loaded"
    /\ LET r == validateConfig(cfg.config)
       IN  cfg' = [cfg EXCEPT !.pc = "validated", !.config = r.config, !.err = r.err]
    /\ UNCHANGED <<a, pending, quitted, last, lastOK, used, overlap, issued, sse, ev>>

NextConfig == Validate

SpecConfig == InitConfig /\ [][NextConfig]_vars

\* SpecStream: one call of StreamEventsSSE on a response drawn from every
\* status, body of up to MaxLines lines and ending; the consumer drains
\* the channel when it likes and the caller may cancel ctx
InitStream ==
    /\ InitLoop
    /\ \E resp \in Responses(SeqsUpTo(Lines, MaxLines)) :
            sse = [r |-> NewReader(resp), ch |-> <<>>, done |-> FALSE, recv |-> <<>>]
    /\ ev = NoEvents
    /\ cfg = NoConfig

StreamUnchanged == UNCHANGED <<a, pending, quitted, last, lastOK, used, overlap, issued, ev, cfg>>

\* the reader goroutine takes a step
SSEReader ==
    /\ \E o \in ReaderSteps(sse.r, sse.ch, sse.done) :
            sse' = [sse EXCEPT !.r = o.r, !.ch = o.ch]
    /\ StreamUnchanged

\* the consumer receives the oldest event of the channel
SSEDrain ==
    /\ sse.ch # <<>>
    /\ sse' = [sse EXCEPT !.ch = Tail(sse.ch), !.recv = Append(sse.recv, Head(sse.ch))]
    /\ StreamUnchanged

\* the caller cancels ctx
SSECancel ==
    /\ ~sse.done
    /\ sse' = [sse EXCEPT !.done = TRUE]
    /\ StreamUnchanged

NextStream == SSEReader \/ SSEDrain \/ SSECancel

SpecStream == InitStream /\ [][NextStream]_vars

\* SpecEvents: an EventsModel run by a loop of its own, as a screen would
\* be: its Init commands, the keys r, c and s, the server answering each
\* connection with one of three responses, and a ctx the owner may cancel
EvResponses ==
    {[connErr |-> FALSE, status |-> StatusOK, lines |-> <<DataLine("e1"), DataLine("e2")>>,
      ending |-> "EOF"],
     [connErr |-> FALSE, status |-> StatusOK, lines |-> <<DataLine("e1")>>,
      ending |-> "reset"],
     [connErr |-> FALSE, status |-> 500, lines |-> <<>>, ending |-> "EOF"]}

InitEvents ==
    /\ InitLoop
    /\ sse = NoStream
    /\ ev = NewEvents
    /\ cfg = NoConfig

EventsUnchanged == UNCHANGED <<a, pending, quitted, last, lastOK, used, overlap, issued, sse, cfg>>

EvKey ==
    /\ ev.keys < MaxEvKeys
    /\ \E k \in {"r", "c", "s"} :
            ev' = [EventsHandle(ev, KeyMsg(k), EmptyBag) EXCEPT !.keys = @ + 1]
    /\ EventsUnchanged

EvStart ==
    /\ BagIn(startEventStreaming, ev.cmds)
    /\ \E resp \in EvResponses : ev' = RunStartEventStreaming(ev, resp)
    /\ EventsUnchanged

EvListen ==
    /\ BagIn(listenForEvents, ev.cmds)
    /\ ev' \in RunListenForEvents(ev)
    /\ EventsUnchanged

EvReader ==
    /\ \E r \in BagToSet(ev.readers) :
            \E o \in ReaderSteps(r, ev.ch, ev.done) : ev' = RunReader(ev, r, o)
    /\ EventsUnchanged

EvCancel ==
    /\ ~ev.done
    /\ ev' = [ev EXCEPT !.done = TRUE, !.step = "cancel", !.msg = "none"]
    /\ EventsUnchanged

NextEvents == EvKey \/ EvStart \/ EvListen \/ EvReader \/ EvCancel

SpecEvents == InitEvents /\ [][NextEvents]_vars

----------------------------------------------------------------------------
(* Claims checked under Spec *)

AutoRefreshScreens == {ScreenDashboard, ScreenItems, ScreenItemDetail, ScreenSettings}

\* the commands a screen's Init returns, for the model of that screen in app
InitOf(app, sc) ==
    CASE sc = ScreenDashboard -> DashboardInit
      [] sc = ScreenItems -> ItemsInit
      [] sc = ScreenItemDetail -> ItemDetailInit(app.itemDetail)
      [] sc = ScreenSettings -> SettingsInit
      [] sc = ScreenLogs -> LogsInit
      [] sc = ScreenHelp -> NoCmd

Timers(B) == {c \in BagToSet(B) : c.kind = "autoRefresh"}

\* a row with an id is under the cursor of the item list in Browsing mode
RowSelected(m, id) ==
    /\ ~m.showSearch
    /\ ~m.items.nil
    /\ m.cursor < Len(m.items.rows)
    /\ m.items.rows[m.cursor + 1] = id
    /\ id # ""

C2_Enter ==
    \A id \in {"42", "7"} :
        (/\ a.currentScreen = ScreenItems
         /\ RowSelected(a.items, id)
         /\ last'.msg = KeyMsg("enter"))
        => /\ last'.cmd = SetToBag({[kind |-> "showItemDetailCmd", owner |-> ScreenItems,
                                     id |-> id, params |-> NoParams]})
           /\ a' = a

C2_Show ==
    last'.msg.type = "showItemDetailMsg"
    => /\ a'.currentScreen = ScreenItemDetail
       /\ a'.itemDetail = [nil |-> FALSE, itemID |-> last'.msg.itemID, loading |-> TRUE,
                           error |-> <<>>, itemData |-> Nil, streams |-> Nil,
                           activeTab |-> 0, lastUpdate |-> ZeroTime,
                           width |-> a.width, height |-> a.height - 3]
       /\ BagToSet(last'.cmd) =
            {Cmd("fetchItemDetail", ScreenItemDetail, last'.msg.itemID),
             Cmd("fetchItemStreams", ScreenItemDetail, last'.msg.itemID),
             Cmd("autoRefresh", ScreenItemDetail, "")}
       /\ BagCardinality(last'.cmd) = 3

C2_Esc ==
    (a.currentScreen = ScreenItemDetail /\ last'.msg = KeyMsg("esc"))
    => /\ a' = [a EXCEPT !.currentScreen = ScreenItems]
       /\ last'.cmd = EmptyBag

\* C2: enter on an item-list row with id X (Browsing) returns exactly the
\* navigate-to-detail command for X and changes nothing; handling its message
\* makes ItemDetail current with a new model for X (loading, empty payload,
\* first tab) and returns the detail fetch, the streams fetch and the timer,
\* also when an earlier ItemDetail model existed; esc on ItemDetail makes
\* ItemList current, keeps everything else and returns no command.
C2_Navigation == [][C2_Enter /\ C2_Show /\ C2_Esc]_vars

\* C2 witness: a second navigation to a detail has been handled (the timers
\* of two ItemDetail Inits are outstanding) and the model is new
C2_Witness ==
    /\ last.msg.type = "showItemDetailMsg"
    /\ a.currentScreen = ScreenItemDetail
    /\ a.itemDetail.loading /\ a.itemDetail.itemData = Nil
    /\ CopiesIn(ItemDetailAutoRefresh, pending) = 2

C3_Tick ==
    last'.msg.type = "refreshMsg"
    => /\ a.currentScreen \in AutoRefreshScreens
            => /\ last'.cmd = InitOf(a, a.currentScreen)
               /\ ModelOf(a', a.currentScreen).lastUpdate = Now
       /\ a.currentScreen \notin AutoRefreshScreens => last'.cmd = EmptyBag /\ a' = a

ResultTypes ==
    {"statsMsg", "servicesMsg", "rdUserMsg", "itemsMsg", "statesMsg", "itemDetailMsg",
     "itemStreamsMsg", "settingsMsg", "logsMsg"}

C3_Hidden ==
    last'.msg.type \in ResultTypes \cup {"refreshMsg"}
    => /\ a'.currentScreen = a.currentScreen
       /\ \A sc \in Screen \ {a.currentScreen} : ModelOf(a', sc) = ModelOf(a, sc)

C4_TickRearms ==
    (last.msg.type = "refreshMsg" /\ last.screen \in AutoRefreshScreens)
    => /\ Cardinality(Timers(last.cmd)) = 1
       /\ \A t \in Timers(last.cmd) : t.owner = last.screen /\ CopiesIn(t, last.cmd) = 1
       /\ last.cmd = InitOf(a, last.screen)

\* C4 witness: the ItemDetail screen has handled a tick
C4_Witness ==
    /\ last.msg.type = "refreshMsg"
    /\ last.screen = ScreenItemDetail
    /\ Cardinality(Timers(last.cmd)) = 1

----------------------------------------------------------------------------
(* Fetch results (SpecFetch) *)

PrimaryKinds == {"fetchStats", "fetchItems", "fetchItemDetail", "fetchSettings", "fetchLogs"}

\* the message of last' is a fetch result that reaches the Update of the screen owning the fetch
ResultHandled ==
    /\ last'.msg.type \in ResultTypes
    /\ last'.from.owner = a.currentScreen

\* a success replaces the payload, clears the error and clears loading; a
\* failure sets the error, clears loading and keeps the payload
FullResult(kind, msg, m, n) ==
    LET f == PayloadField(kind)
    IN  IF msg.err = ""
        THEN n[f] = msg.val /\ n.error = NoError /\ ~n.loading
        ELSE n[f] = m[f] /\ n.error # NoError /\ ~n.loading

\* the original statement of C5: every fetch result a screen handles, the
\* secondary ones included, is applied as FullResult
C5_Original ==
    [][ResultHandled
        => FullResult(last'.from.kind, last'.msg,
                      ModelOf(a, a.currentScreen), ModelOf(a', a.currentScreen))]_vars

C5_Step ==
    LET kind == last'.from.kind
        msg == last'.msg
        f == PayloadField(kind)
        m == ModelOf(a, a.currentScreen)
        n == ModelOf(a', a.currentScreen)
    IN  ResultHandled
        => CASE kind \in PrimaryKinds -> FullResult(kind, msg, m, n)
             [] kind = "fetchServices" ->
                    IF msg.err = ""
                    THEN n = [m EXCEPT !.services = msg.val]
                    ELSE n = [m EXCEPT !.error = Sprintf("Failed to fetch services", msg.err)]
             [] OTHER ->
                    IF msg.err = "" THEN n = [m EXCEPT ![f] = msg.val] ELSE n = m

\* C5 (amended): for the primary fetch of each screen (stats, item listing,
\* item detail, settings, logs) a success replaces the payload, clears the
\* error and clears loading, and a failure sets the error, clears loading and
\* keeps the payload.  A secondary result changes neither loading nor, on
\* success, the error: a services success only replaces the services, a
\* services failure only sets the error; an RD-user, states or streams
\* success only replaces its payload and its failure changes nothing.
C5_Results == [][C5_Step]_vars

\* C5 witness: a services failure has set the Dashboard's error and left it loading
C5_Witness ==
    /\ last.msg.type = "servicesMsg"
    /\ last.msg.err # ""
    /\ last.screen = ScreenDashboard
    /\ a.dashboard.loading
    /\ a.dashboard.error = Sprintf("Failed to fetch services", last.msg.err)

----------------------------------------------------------------------------
(* The item list in the program (SpecItems) *)

\* C1: while ItemList is in Searching mode, a key press other than enter
\* and esc only changes the search input: the screen, the rest of the state
\* and the outstanding commands stay as they are and nothing is emitted.
C1_SearchConsumesKeys ==
    [][(/\ a.currentScreen = ScreenItems
        /\ a.items.showSearch
        /\ last'.msg.type = "KeyMsg"
        /\ last'.msg.key \notin {"enter", "esc"})
       => /\ a' = [a EXCEPT !.items.searchInput = TextInputUpdate(@, last'.msg.key)]
          /\ last'.cmd = EmptyBag]_vars

\* C7: the current page is at least 1 and at most max(total_pages, 1) of
\* the listing held (0 pages if none is held).
C7_PageInRange ==
    /\ a.items.currentPage >= 1
    /\ a.items.currentPage <= Max(a.items.items.totalPages, 1)

\* C10: when two item-listing fetches are in flight together and ItemList
\* stays current, each result is applied as it is delivered, so the listing
\* held after both is that of the result delivered last.
C10_LastAppliedWins ==
    (overlap >= 1 /\ last.msg.type = "itemsMsg")
    => a.items.items = last.msg.val /\ ~a.items.loading

\* C10 witness: both results were applied, the one requested for page 1
\* after the one requested later for page 2
C10_Witness ==
    /\ overlap = 2
    /\ last.from.params.page = 1
    /\ a.items.currentPage = 2
    /\ a.items.items.totalPages = 1

----------------------------------------------------------------------------
(* ItemsModel.Update on its own (SpecItemsModel) *)

BrowsingKey(keys) ==
    /\ last'.msg.type = "KeyMsg"
    /\ last'.msg.key \in keys
    /\ ~a.items.showSearch

Paged(m, page) == [m EXCEPT !.currentPage = page, !.loading = TRUE]

C9_Step ==
    LET m == a.items
        tp == m.items.totalPages
        noop == a'.items = m /\ last'.cmd = EmptyBag
        k == Atoi(last'.msg.key)
    IN  /\ BrowsingKey({"n"})
            => IF m.items.nil \/ m.currentPage >= tp
               THEN noop
               ELSE a'.items = Paged(m, m.currentPage + 1)
                        /\ last'.cmd = Batch({fetchItems})
        /\ BrowsingKey({"p"})
            => IF m.currentPage = 1
               THEN noop
               ELSE a'.items = Paged(m, m.currentPage - 1)
                        /\ last'.cmd = Batch({fetchItems})
        /\ BrowsingKey({"1", "2", "3"})
            => IF k > tp
               THEN noop
               ELSE a'.items = Paged(m, k) /\ last'.cmd = Batch({fetchItems})

\* C9: in Browsing mode, next-page at or past the last page (or with no
\* listing), previous-page on page 1 and a digit above total_pages change
\* nothing and return no command; otherwise the page becomes the next one,
\* the previous one or the digit, and exactly one fetch is returned.
C9_PageKeys == [][C9_Step]_vars

\* C9 witness: next-page was pressed on the last of two pages and did nothing
C9_Witness ==
    /\ last.msg.type = "KeyMsg"
    /\ last.msg.key = "n"
    /\ last.cmd = EmptyBag
    /\ a.items.items.totalPages = MaxPages
    /\ a.items.currentPage = MaxPages

----------------------------------------------------------------------------
(* The stream reader (SpecStream) *)

IsPrefix(s, t) == Len(s) <= Len(t) /\ SubSeq(t, 1, Len(s)) = s

\* the events of the lines that begin with "data: " and whose remainder decodes
RECURSIVE Decoded(_)
Decoded(lines) ==
    IF lines = <<>> THEN <<>>
    ELSE (IF HasPrefix(Head(lines), "data: ") /\ ~Unmarshal(Head(lines)).err
          THEN <<Unmarshal(Head(lines)).event>> ELSE <<>>) \o Decoded(Tail(lines))

\* the events the reader has put into the channel so far, in order
Pushed == sse.recv \o sse.ch

\* the reader is past the status check
Scanning ==
    \/ sse.r.pc \in {"Scan", "Send"}
    \/ sse.r.pc = "Returned"
        /\ sse.r.ret \in {"nil", "unexpected EOF", "bufio.Scanner: token too long"}

\* the lines the scanner has returned so far
Scanned == SubSeq(sse.r.resp.lines, 1, Len(sse.r.resp.lines) - Len(sse.r.rest))

InHand == IF sse.r.pc = "Send" THEN <<sse.r.hand>> ELSE <<>>

C11_Bounded ==
    /\ Len(sse.ch) <= ChanCap
    /\ (Scanning /\ ~sse.done) => Pushed \o InHand = Decoded(Scanned)

C11_Blocks ==
    (sse.r.pc = "Send" /\ Len(sse.ch) = ChanCap /\ ~sse.done) => sse'.r = sse.r

\* C11: the channel never holds more than its capacity; a reader that finds
\* it full, without cancellation, stays blocked on the send until the consumer
\* makes room; and without cancellation the events in the channel or already
\* received, followed by the one the reader holds, are exactly the events
\* decoded so far, in stream order: none is dropped or reordered.
C11_Backpressure == []C11_Bounded /\ [][C11_Blocks]_vars

\* C11 witness: the reader is blocked on a full channel nobody has drained
C11_Witness ==
    /\ sse.r.pc = "Send"
    /\ Len(sse.ch) = ChanCap
    /\ sse.recv = <<>>
    /\ ~sse.done

\* C12: once the reader has returned, without cancellation, from a response
\* with status 200, the events pushed are exactly those of the "data: " lines
\* that decode, in order, and no line has produced an error: the value
\* returned is that of the way the body ended.
C12_Parser ==
    (Scanning /\ sse.r.pc = "Returned" /\ ~sse.done)
    => /\ Pushed = Decoded(sse.r.resp.lines)
       /\ sse.r.ret = IF sse.r.resp.ending = "EOF" THEN "nil" ELSE "unexpected EOF"

\* C13: on a status other than 200 the reader never scans the body, pushes
\* no event and returns an error.
C13_FailFast ==
    (~sse.r.resp.connErr /\ sse.r.resp.status # StatusOK)
    => /\ sse.r.pc \in {"Do", "Returned"}
       /\ Pushed = <<>>
       /\ sse.r.pc = "Returned"
            => sse.r.ret \in {"event stream failed with status", "context canceled"}

\* C13 witness: status 500 with a body full of valid events has returned the status error
C13_Witness ==
    /\ sse.r.resp.status = 500
    /\ sse.r.resp.lines = <<DataLine("e1"), DataLine("e2"), DataLine("e1")>>
    /\ sse.r.pc = "Returned"
    /\ sse.r.ret = "event stream failed with status"

\* C15: once ctx is cancelled the reader puts no further event into the channel.
C15_NoPushAfterCancel ==
    [][sse.done => sse'.recv \o sse'.ch = sse.recv \o sse.ch]_vars

----------------------------------------------------------------------------
(* Quit and cancellation (Spec) *)

\* C16: once the quit key has been handled and the loop has ended, the
\* context shared by the asynchronous operations is cancelled.
C16_QuitCancels == quitted => Done(a.ctx)

----------------------------------------------------------------------------
(* The Events screen (SpecEvents) *)

Listeners == CopiesIn(listenForEvents, ev.cmds)

Readers == BagCardinality(ev.readers)

\* C14: when a reader has ended with an error while ctx was not cancelled,
\* a stream-error message is on its way to the Events screen or has been
\* handled there: the screen shows the error or a reconnect timer is armed.
C14_ErrorReported ==
    ev.failed => \/ ev.m.error # NoError
                 \/ BagIn(ReconnectTick, ev.cmds)
                 \/ ev.msg = "eventsErrorMsg"

\* C17: after an event message has been handled, and after a poll of the
\* channel has timed out, a listener is still armed.
C17_ListenerRearmed ==
    (~ev.done /\ ev.step = "Update" /\ ev.msg \in {"eventMsg", "tea.Cmd"}) => Listeners >= 1

\* C18: at any moment at most one reader writes to the channel and at most
\* one listener reads from it.
C18_SingleReaderListener == Readers <= 1 /\ Listeners <= 1

\* C19: the streaming flag is true exactly when a reader is running.
C19_StreamingIffReader == ev.m.streaming <=> Readers >= 1

\* C20: the state of the Events screen changes only in a step of Update.
C20_OnlyUpdateWrites == [][ev'.m # ev.m => ev'.step = "Update"]_vars

----------------------------------------------------------------------------
(* Reaching and leaving ItemDetail (Spec) *)

\* C21: every step that makes ItemDetail the current screen starts in a
\* state whose current screen is ItemList.
C21_DetailOnlyFromItems ==
    [][(a.currentScreen # ScreenItemDetail /\ a'.currentScreen = ScreenItemDetail)
            => a.currentScreen = ScreenItems]_vars

\* C22: every step that starts with ItemDetail current and ends with
\* another screen current ends with ItemList current.
C22_Original ==
    [][(a.currentScreen = ScreenItemDetail /\ a'.currentScreen # ScreenItemDetail)
            => a'.currentScreen = ScreenItems]_vars

\* the screen a global screen-switch key makes current
SwitchTarget(k) ==
    CASE k \in KeysDashboard -> ScreenDashboard
      [] k \in KeysItems -> ScreenItems
      [] k \in KeysSettings -> ScreenSettings
      [] k \in KeysLogs -> ScreenLogs
      [] k \in KeysHelp -> ScreenHelp

\* C22 (amended): a step that starts with ItemDetail current and ends with
\* another screen current handles a key press: esc, and it ends with ItemList
\* current, or a screen-switch key, and it ends with that key's screen current.
C22_DetailLeaves ==
    [][(a.currentScreen = ScreenItemDetail /\ a'.currentScreen # ScreenItemDetail)
            => /\ last'.msg.type = "KeyMsg"
               /\ \/ last'.msg.key = "esc" /\ a'.currentScreen = ScreenItems
                  \/ /\ last'.msg.key \in SwitchKeys
                     /\ a'.currentScreen = SwitchTarget(last'.msg.key)]_vars

C22_Witness ==
    /\ last.screen = ScreenItemDetail
    /\ last.msg = KeyMsg("s")
    /\ a.currentScreen = ScreenSettings

----------------------------------------------------------------------------
(* Terminal resize (SpecResize) *)

\* the screen models that exist: all but a nil ItemDetail
Existing(app) == {sc \in Screen : sc = ScreenItemDetail => ~app.itemDetail.nil}

Sized(m, width, height) == m.width = width /\ m.height = height - 3

\* C23: after a resize message has been handled every existing screen model
\* holds dimensions derived from the message's width and height, and the
\* handler has returned no command.
C23_ResizeAll ==
    last.msg.type = "WindowSizeMsg"
        => /\ \A sc \in Existing(a) : Sized(ModelOf(a, sc), last.msg.width, last.msg.height)
           /\ last.cmd = EmptyBag

----------------------------------------------------------------------------
(* Global key bindings (Spec) *)

----------------------------------------------------------------------------
(* The refresh key (SpecFetch) *)

DataScreens == {ScreenDashboard, ScreenItems, ScreenItemDetail, ScreenSettings, ScreenLogs}

\* C25: a press of r handled while a data screen is current (the item list
\* in Browsing mode) returns a fetch command of that screen.
C25_RefreshKeyFetches ==
    [][(/\ last'.from = Terminal
        /\ last'.msg = KeyMsg("r")
        /\ a.currentScreen \in DataScreens
        /\ ~(a.currentScreen = ScreenItems /\ a.items.showSearch))
        => \E c \in BagToSet(last'.cmd) : c.kind \in FetchKinds /\ c.owner = a.currentScreen]_vars

----------------------------------------------------------------------------
(* Commands sent to the service (SpecActions) *)

\* a command that calls one of the client's mutating operations has been returned
MutatingEmitted ==
    \E c \in BagToSet(pending) \cup BagToSet(last.cmd) : c.kind \in MutatingKinds

\* C26: the user pressing keys, the application comes to return a command
\* that retries, resets, pauses, unpauses or removes items.
C26_MutatingCommand == <>MutatingEmitted

----------------------------------------------------------------------------
(* The sort order of the item list *)

\* the cycle of sort orders, in the order of the usage text
SortCycle == <<SortDateDesc, SortDateAsc, SortTitleAsc, SortTitleDesc>>

IndexOf(order) == CHOOSE i \in 1..Len(SortCycle) : SortCycle[i] = order

SortAfter(order) == SortCycle[(IndexOf(order) % Len(SortCycle)) + 1]

\* C27 (Spec): a press of s handled while ItemList is current in Browsing
\* mode advances the sort order by one place of the cycle and leaves
\* ItemList current.
C27_SortKeyReachesList ==
    [][(/\ last'.from = Terminal
        /\ last'.msg = KeyMsg("s")
        /\ a.currentScreen = ScreenItems
        /\ ~a.items.showSearch)
        => /\ a'.currentScreen = ScreenItems
           /\ a'.items.sortOrder = SortAfter(a.items.sortOrder)]_vars

\* n sort-change actions on the model m
RECURSIVE SortTimes(_, _)
SortTimes(m, n) == IF n = 0 THEN m ELSE SortTimes(ItemsUpdate(m, KeyMsg("s")).m, n - 1)

C28_FourCycle ==
    /\ SortTimes(a.items, 4).sortOrder = a.items.sortOrder
    /\ a.items.sortOrder = SortDateDesc
            => \A n \in 1..3 : SortTimes(a.items, n).sortOrder # SortDateDesc

C28_Order ==
    last'.msg = KeyMsg("s") => a'.items.sortOrder = SortAfter(a.items.sortOrder)

\* C28 (SpecItemsModel): the sort-change action moves the sort order one
\* place along date-descending, date-ascending, title-ascending,
\* title-descending and round; four of them return to the order they
\* started from, and fewer than four do not return to date-descending.
C28_SortCycle == []C28_FourCycle /\ [][C28_Order]_vars

\* the sort-change action has just wrapped round to date-descending
C28_Witness ==
    /\ last.msg = KeyMsg("s")
    /\ a.items.sortOrder = SortDateDesc
    /\ a.items.loading

----------------------------------------------------------------------------
(* The modes of the item list (SpecSearch) *)

Fetches(B) == {c \in BagToSet(B) : c.kind \in FetchKinds}

\* C29: with the item list handling a key press: the search key in
\* Browsing mode enters Searching and returns no fetch; enter in Searching
\* makes the draft the search query, sets the page to 1, returns exactly one
\* fetch and goes back to Browsing; esc in Searching goes back to Browsing,
\* empties the draft, keeps the search query and the page and returns no fetch.
C29_SearchModes ==
    [][(last'.screen = ScreenItems /\ last'.msg.type = "KeyMsg")
        => /\ (~a.items.showSearch /\ last'.msg.key = "/")
                => /\ a'.items.showSearch
                   /\ Fetches(last'.cmd) = {}
           /\ (a.items.showSearch /\ last'.msg.key = "enter")
                => /\ ~a'.items.showSearch
                   /\ a'.items.searchQuery = a.items.searchInput
                   /\ a'.items.currentPage = 1
                   /\ last'.cmd = Batch({fetchItems})
           /\ (a.items.showSearch /\ last'.msg.key = "esc")
                => /\ ~a'.items.showSearch
                   /\ a'.items.searchInput = <<>>
                   /\ a'.items.searchQuery = a.items.searchQuery
                   /\ a'.items.currentPage = a.items.currentPage
                   /\ last'.cmd = EmptyBag]_vars

\* a draft has been cancelled on page 2 of the results of an earlier search
C29_Witness ==
    /\ last.msg = KeyMsg("esc")
    /\ ~a.items.showSearch
    /\ a.items.searchInput = <<>>
    /\ a.items.searchQuery = <<"x">>
    /\ a.items.currentPage = 2

----------------------------------------------------------------------------
(* The list of events (SpecEvents) *)

Reverse(q) == [i \in 1..Len(q) |-> q[Len(q) + 1 - i]]

Take(q, n) == SubSeq(q, 1, Min(n, Len(q)))

\* C30: the list of events holds at most MaxEventsKept events: the events
\* handled since it was last empty, newest first, without the oldest ones
\* beyond the maximum.
C30_NewestFirstBounded ==
    /\ Len(ev.m.events) <= MaxEventsKept
    /\ ev.m.events = Take(Reverse(ev.hist), MaxEventsKept)

\* an event has been added to a full list
C30_Witness ==
    /\ ev.msg = "eventMsg"
    /\ Len(ev.hist) > MaxEventsKept
    /\ Len(ev.m.events) = MaxEventsKept

----------------------------------------------------------------------------
(* The tabs of ItemDetail (SpecTabs) *)

C31_TabInRange == ~a.itemDetail.nil => a.itemDetail.activeTab \in {0, 1, 2}

C31_TabKeys ==
    (/\ a.currentScreen = ScreenItemDetail
     /\ ~a.itemDetail.nil
     /\ last'.from = Terminal
     /\ last'.msg.type = "KeyMsg"
     /\ last'.msg.key \in {"tab", "shift+tab", "1", "2", "3"})
    => LET i == a.itemDetail.activeTab
           k == last'.msg.key
       IN  /\ a'.itemDetail.activeTab =
                CASE k = "tab" -> (i + 1) % 3
                  [] k = "shift+tab" -> (i + 2) % 3
                  [] k = "1" -> 0
                  [] k = "2" -> 1
                  [] k = "3" -> 2
           /\ last'.cmd = EmptyBag

\* C31: the active tab of an ItemDetail is 0, 1 or 2; with ItemDetail
\* current, tab moves it to the next tab and shift+tab to the previous one,
\* round the three; 1, 2 and 3 set it to 0, 1 and 2; none returns a command.
C31_Tabs == []C31_TabInRange /\ [][C31_TabKeys]_vars

\* the previous-tab key has wrapped from the first tab to the last
C31_Witness ==
    /\ a.currentScreen = ScreenItemDetail
    /\ last.msg = KeyMsg("shift+tab")
    /\ a.itemDetail.activeTab = 2

----------------------------------------------------------------------------
(* Validation of the configuration (SpecConfig) *)

\* C32: validateConfig returns an error for every configuration whose page
\* size is zero or less.
C32_PageSizeRejected ==
    (cfg.pc = "validated" /\ cfg.input.UI.PageSize <= 0) => cfg.err # ""

\* C33: validateConfig returns no error for the configuration of DefaultConfig.
C33_DefaultValid ==
    (cfg.pc = "validated" /\ cfg.input = DefaultConfig) => cfg.err = ""

----------------------------------------------------------------------------
(* The screens that are not current (Spec) *)

C34_Original ==
    [][last'.msg.type # "WindowSizeMsg"
        => \A sc \in Screen \ {a.currentScreen} : ModelOf(a', sc) = ModelOf(a, sc)]_vars

\* C34 (amended): a step that handles a message other than a resize leaves
\* the model of every screen other than the current one as it was, but for
\* the navigation message, which replaces the ItemDetail model by a new one.
C34_OthersUnchanged ==
    [][last'.msg.type # "WindowSizeMsg"
        => \A sc \in Screen \ {a.currentScreen} :
                \/ ModelOf(a', sc) = ModelOf(a, sc)
                \/ /\ sc = ScreenItemDetail
                   /\ last'.msg.type = "showItemDetailMsg"
                   /\ a'.itemDetail =
                        ItemDetailSetSize(NewItemDetailModel(last'.msg.itemID),
                                          a.width, a.height)]_vars

\* the item list is current again after ItemDetail and holds the listing it
\* had when it was left; the Dashboard, not current, holds its statistics
C34_Witness ==
    /\ last.msg = KeyMsg("esc")
    /\ last.screen = ScreenItemDetail
    /\ a.currentScreen = ScreenItems
    /\ ~a.items.items.nil
    /\ a.dashboard.stats # Nil
    /\ ~a.itemDetail.nil

----------------------------------------------------------------------------
(* Auto-refresh of the current screen (Spec) *)

\* C35: in every reachable state whose current screen is Dashboard, ItemList,
\* ItemDetail or Settings, at least one auto-refresh timer is pending.
C35_TimerPending ==
    a.currentScreen \in AutoRefreshScreens => Timers(pending) # {}

\* every timer was lost to a tick handled by Logs, and the Dashboard, selected
\* again from Logs, holds the one timer its Init started
C35_Witness ==
    /\ last.msg = KeyMsg("d")
    /\ last.screen = ScreenLogs
    /\ a.currentScreen = ScreenDashboard
    /\ used.ticks = 1
    /\ Timers(pending) = {DashboardAutoRefresh}
    /\ CopiesIn(DashboardAutoRefresh, pending) = 1

----------------------------------------------------------------------------
(* The number of pending timers (SpecTimers) *)

\* the number of auto-refresh timers in a bag of commands
TimerCount(B) == BagCardinality([c \in Timers(B) |-> CopiesIn(c, B)])

\* C36: the number of pending auto-refresh timers never exceeds the number
\* of auto-refresh screens.
C36_TimersBounded == TimerCount(pending) <= Cardinality(AutoRefreshScreens)

----------------------------------------------------------------------------
(* The item of a detail result (SpecDetail) *)

\* C37: when the ItemDetail model stores the payload of a detail or streams
\* result, the fetch that produced the result was issued for the item id of
\* that model.
C37_OwnItem ==
    [][(/\ a.currentScreen = ScreenItemDetail
        /\ ~a.itemDetail.nil
        /\ last'.from.kind \in {"fetchItemDetail", "fetchItemStreams"}
        /\ last'.msg.err = "")
        => last'.from.id = a'.itemDetail.itemID]_vars

----------------------------------------------------------------------------
(* Loading and the fetches under way (SpecDetail) *)

\* C38: whenever the model of the current screen is loading, a fetch built
\* by that screen, whose result that screen handles, is pending.
C38_LoadingHasFetch ==
    (~quitted /\ a.currentScreen # ScreenHelp /\ ModelOf(a, a.currentScreen).loading)
        => \E c \in Fetches(pending) : c.owner = a.currentScreen

----------------------------------------------------------------------------
(* The parameters of a listing fetch (SpecItems) *)

\* C39: when the closure of a listing fetch runs, the parameters it reads
\* from the item list are those the item list had when one of the listing
\* fetches still to run was returned.
C39_ParamsAtIssue ==
    [][(last'.from.kind = "fetchItems" /\ last'.msg.type = "none")
        => BagIn(ItemsParams(a.items), issued)]_vars

----------------------------------------------------------------------------
(* The model of the ItemDetail screen (SpecDetail) *)

C40_Exists == a.currentScreen = ScreenItemDetail => ~a.itemDetail.nil

C40_Id ==
    IF last'.msg.type = "showItemDetailMsg"
    THEN /\ a'.currentScreen = ScreenItemDetail
         /\ a'.itemDetail.itemID = last'.msg.itemID
    ELSE /\ a'.itemDetail.itemID = a.itemDetail.itemID
         /\ a'.currentScreen = ScreenItemDetail => a.currentScreen = ScreenItemDetail

\* C40: whenever the current screen is ItemDetail its model is not nil; a
\* navigation message makes ItemDetail current with the id it carries, and
\* no other step changes that id or makes ItemDetail current, so the id is
\* that of the navigation message handled last.
C40_DetailOfLastNavigation == []C40_Exists /\ [][C40_Id]_vars

\* a second navigation message, handled while ItemDetail is current, has
\* replaced the model by one for its own id
C40_Witness ==
    /\ last.msg = [type |-> "showItemDetailMsg", itemID |-> "7"]
    /\ last.screen = ScreenItemDetail
    /\ a.currentScreen = ScreenItemDetail
    /\ a.itemDetail.itemID = "7"
    /\ BagIn(fetchItemDetail(NewItemDetailModel("42")), pending)

====
